---- MODULE Spec2Model ----
(***************************************************************************)
(* Model of lstm_genre_classifier_pytorch.py: the cache gate at start-up,  *)
(* the conversion of the loaded arrays to tensors, the LSTM model object   *)
(* and the epoch x minibatch training loop.                                *)
(*                                                                         *)
(* Abstractions (stated once, used throughout):                            *)
(*  - floating point values are exact rationals [num, den] in lowest terms;*)
(*    a log-probability is 0 for the predicted class and -1 for another;   *)
(*  - the numeric content of the feature tensors is not modelled: an input *)
(*    tensor is its dtype, its shape, the meaning of each axis and the     *)
(*    index of the first example it holds (examples are contiguous);       *)
(*  - the model parameters are a version number, bumped by every optimizer *)
(*    step; the gradient buffer is the list of minibatches whose gradients *)
(*    have been accumulated into it since it was last cleared;             *)
(*  - the result of the forward pass is chosen by the environment from a   *)
(*    small set of outcomes;                                               *)
(*  - a constant tensor (torch.zeros) is its shape and its fill value;     *)
(*  - the loop temporaries are dropped once the iteration has used them.   *)
(***************************************************************************)
EXTENDS Integers, Sequences, FiniteSets, TLC

VARIABLES
    pc,                  \* position of the script
    files,               \* cache files present on disk
    genre_features,      \* arrays held by the GenreFeatureData instance
    train_X, train_Y, test_X, test_Y,
    model,               \* the LSTM instance
    optimizer,           \* the Adam instance
    num_batches,
    epoch, i,
    train_running_loss, train_acc,
    X_local_minibatch, y_local_minibatch,
    y_pred, loss,
    used,                \* history: example ranges sliced in the current epoch
    values,              \* history: loss and accuracy of its finished minibatches
    printed,             \* number of epoch report lines written to stdout
    line,                \* line written to stdout by the latest step
    err                  \* uncaught exception that ended the run

vars == <<pc, files, genre_features, train_X, train_Y, test_X, test_Y,
          model, optimizer, num_batches, epoch, i, train_running_loss,
          train_acc, X_local_minibatch, y_local_minibatch, y_pred, loss,
          used, values, printed, line, err>>

(***************************************************************************)
(* Program constants.                                                      *)
(***************************************************************************)
batch_size == 35
num_epochs == 400
input_dim == 33
hidden_dim == 128
output_dim == 8
num_layers == 2

(***************************************************************************)
(* Bounds of the model.                                                    *)
(***************************************************************************)
MaxBatches == 2      \* the training set holds at most this many full batches
SeqLen == 2          \* time steps per example
TestSize == 2        \* examples in the test set
MaxDim == 3          \* largest dimension of a model configuration (SpecHidden)
MaxUpdates == 2      \* parameter updates between init_hidden calls (SpecHidden)

Null == [none |-> TRUE]

CacheFiles == {"train_X", "train_Y", "dev_X", "dev_Y", "test_X", "test_Y"}

\* a function on 1..n as the sequence of its n values
AsSeq(f) == SubSeq(f, 1, Len(f))

Min(a, b) == IF a < b THEN a ELSE b
Max(a, b) == IF a > b THEN a ELSE b

(***************************************************************************)
(* Exact rationals for the float arithmetic of the loop.                   *)
(***************************************************************************)
\* greatest common divisor of a >= 0 and b >= 0
RECURSIVE GCD(_, _)
GCD(a, b) == IF b = 0 THEN a ELSE GCD(b, a % b)

Rat(n, d) == LET g == GCD(IF n < 0 THEN -n ELSE n, d)
             IN  IF g = 0 THEN [num |-> n, den |-> d]
                          ELSE [num |-> n \div g, den |-> d \div g]

RatAdd(a, b) == Rat(a.num * b.den + b.num * a.den, a.den * b.den)

RatLeq(a, b) == a.num * b.den <= b.num * a.den

Zero == Rat(0, 1)
Hundred == Rat(100, 1)

(***************************************************************************)
(* Arrays and tensors.                                                     *)
(***************************************************************************)
\* genre i as a one-hot row over the output_dim classes (class indices from 0)
OneHot(k) == AsSeq([c \in 1..output_dim |-> IF c = k + 1 THEN 1 ELSE 0])

\* the feature array of n examples
FeatureArray(n) ==
    [dtype |-> "float64",
     shape |-> <<n, SeqLen, input_dim>>,
     axes  |-> <<"example", "time", "feature">>,
     first |-> 0]

\* the label array of n examples; example j carries genre j mod output_dim
LabelArray(n) ==
    [dtype |-> "float64",
     rows  |-> AsSeq([j \in 1..n |-> OneHot((j - 1) % output_dim)])]

\* sizes of the training set the loader may deliver
TrainSizes == {b * batch_size + r : b \in 0..MaxBatches, r \in {0, batch_size - 1}}

\* GenreFeatureData.load_deserialize_data / load_preprocess_data: the arrays
\* they leave in the instance, for a training set of n examples
LoadedArrays(n) ==
    [train_X |-> FeatureArray(n), train_Y |-> LabelArray(n),
     test_X  |-> FeatureArray(TestSize), test_Y |-> LabelArray(TestSize)]

\* torch.from_numpy(a).type(t): same content, element type t
from_numpy_type(a, t) == [a EXCEPT !.dtype = t]

\* number of examples of a feature tensor laid out example-first (shape[0])
Shape0(t) == t.shape[1]

\* t[a:b,] on the first axis, with Python's clamping of slice bounds
SliceExamples(t, a, b) ==
    LET n  == t.shape[1]
        lo == Min(a, n)
        hi == Min(b, n)
    IN  [t EXCEPT !.shape = <<Max(hi - lo, 0), t.shape[2], t.shape[3]>>,
                  !.first = t.first + lo]

SliceRows(t, a, b) ==
    LET n  == Len(t.rows)
        lo == Min(a, n)
        hi == Min(b, n)
    IN  [t EXCEPT !.rows = SubSeq(t.rows, lo + 1, hi)]

\* t.permute(p) for a 3-axis tensor; p lists the source axes from 0
permute(t, p) ==
    [t EXCEPT !.shape = AsSeq([k \in 1..3 |-> t.shape[p[k] + 1]]),
              !.axes  = AsSeq([k \in 1..3 |-> t.axes[p[k] + 1]])]

\* index (from 0) of the first maximal entry of a row
ArgMaxRow(row) ==
    (CHOOSE k \in 1..Len(row) :
        /\ \A j \in 1..Len(row) : row[j] <= row[k]
        /\ \A j \in 1..(k - 1) : row[j] < row[k]) - 1

MaxRow(row) == row[ArgMaxRow(row) + 1]

\* mutant: the pair is (indices, values), so [1] takes the maxima
torch_max_1_swapped(t) ==
    << [dtype |-> "int64",
        rows  |-> AsSeq([r \in 1..Len(t.rows) |-> ArgMaxRow(t.rows[r])])],
       [dtype |-> t.dtype,
        rows  |-> AsSeq([r \in 1..Len(t.rows) |-> MaxRow(t.rows[r])])] >>

\* torch.max(t, 1): the pair (values, indices) over the class axis
torch_max_1(t) ==
    << [dtype |-> t.dtype,
        rows  |-> AsSeq([r \in 1..Len(t.rows) |-> MaxRow(t.rows[r])])],
       [dtype |-> "int64",
        rows  |-> AsSeq([r \in 1..Len(t.rows) |-> ArgMaxRow(t.rows[r])])] >>

\* torch.zeros(shape)
zeros(shape) == [shape |-> shape, fill |-> 0]

\* the element of a constant tensor at an index
At(t, idx) == t.fill

Indices(shape) == (1..shape[1]) \X (1..shape[2]) \X (1..shape[3])

(***************************************************************************)
(* class LSTM                                                              *)
(***************************************************************************)
\* LSTM.__init__
LSTM(in_dim, hid_dim, bsize, out_dim, layers) ==
    [input_dim  |-> in_dim,
     hidden_dim |-> hid_dim,
     batch_size |-> bsize,
     num_layers |-> layers,
     output_dim |-> out_dim,
     params     |-> 0,
     grad       |-> <<>>,
     hidden     |-> <<>>]

\* mutant: the state is shaped batch first
init_hidden_batch_first(m) ==
    << zeros(<<m.batch_size, m.num_layers, m.hidden_dim>>),
       zeros(<<m.batch_size, m.num_layers, m.hidden_dim>>) >>

\* LSTM.init_hidden
init_hidden(m) ==
    << zeros(<<m.num_layers, m.batch_size, m.hidden_dim>>),
       zeros(<<m.num_layers, m.batch_size, m.hidden_dim>>) >>

\* LSTM.forward: one row of log-probabilities per example of the input, computed
\* with the parameters the model holds now; scores is the environment's choice
forward(m, input, scores) ==
    [dtype |-> "float32", rows |-> scores,
     from_params |-> m.params, first |-> input.first]

\* a row of log-probabilities peaking at class c
ScoreRow(c) == AsSeq([k \in 1..output_dim |-> IF k = c + 1 THEN 0 ELSE -1])

\* forward outcomes: the first h rows predict the target class, the rest another
Scores(targets, h) ==
    AsSeq([r \in 1..Len(targets) |->
            ScoreRow(IF r <= h THEN targets[r] ELSE (targets[r] + 1) % output_dim)])

HitCounts(n) == {h \in {0, n - 1, n} : h >= 0}

\* mutant: the count of correct rows is not divided by the batch size
get_accuracy_undivided(m, logits, target) ==
    LET pred     == torch_max_1(logits)[2]
        corrects == Cardinality({r \in 1..Len(target.rows) :
                                    pred.rows[r] = target.rows[r]})
    IN  Rat(100 * corrects, 1)

\* LSTM.get_accuracy
get_accuracy(m, logits, target) ==
    LET pred     == torch_max_1(logits)[2]
        corrects == Cardinality({r \in 1..Len(target.rows) :
                                    pred.rows[r] = target.rows[r]})
    IN  Rat(100 * corrects, m.batch_size)

\* mutant: the gradients are left in the buffer
zero_grad_keep(m) == m

\* nn.Module.zero_grad
zero_grad(m) == [m EXCEPT !.grad = <<>>]

\* f[1] + ... + f[n] for entries in 0..top
SumTo(f, n, top) == Cardinality({q \in (1..n) \X (1..top) : q[2] <= f[q[1]]})

\* nn.NLLLoss: the mean over the rows of minus the log-probability of the
\* target class, a scalar on the graph of pred
loss_function(pred, target) ==
    LET n   == Len(target.rows)
        nll == AsSeq([r \in 1..n |-> -pred.rows[r][target.rows[r] + 1]])
    IN  [value |-> Rat(SumTo(nll, n, 1), n),
         from_params |-> pred.from_params, first |-> pred.first]

\* loss.backward(): adds the gradients of the loss's minibatch to the buffer
backward(m, ls) ==
    [m EXCEPT !.grad = Append(@, [from_params |-> ls.from_params, first |-> ls.first])]

\* optim.Adam(model.parameters(), lr=0.001), lr in 1/1000
Adam(lr) == [lr |-> lr, steps |-> 0]

\* optimizer.step(): the one writer of the parameters
step_params(m) == [m EXCEPT !.params = @ + 1]

step_optimizer(o) == [o EXCEPT !.steps = @ + 1]

\* mutant: the batches counted with the remainder rounded up
NumBatchesCeil(n) == (n + batch_size - 1) \div batch_size

\* int(train_X.shape[0] / batch_size)
NumBatches(n) == n \div batch_size

\* mutant: the gate looks at the training files only
TrainCached(fs) == "train_X" \in fs /\ "train_Y" \in fs

\* the cache gate: all six preprocessed files exist
AllCached(fs) ==
    /\ "train_X" \in fs /\ "train_Y" \in fs
    /\ "dev_X" \in fs /\ "dev_Y" \in fs
    /\ "test_X" \in fs /\ "test_Y" \in fs

\* x / n in Python: the quotient, for n # 0
RatDiv(x, n) == Rat(x.num, x.den * n)

NoLine == [kind |-> "none"]
Message(text) == [kind |-> "message", text |-> text]
EpochLine(e, mean_loss, mean_acc) ==
    [kind |-> "epoch", epoch |-> e, loss |-> mean_loss, acc |-> mean_acc]

(***************************************************************************)
(* The script.                                                             *)
(***************************************************************************)
Init ==
    /\ pc = "gate"
    /\ files \in SUBSET CacheFiles
    /\ genre_features = Null
    /\ train_X = Null /\ train_Y = Null /\ test_X = Null /\ test_Y = Null
    /\ model = Null
    /\ optimizer = Null
    /\ num_batches = -1
    /\ epoch = -1 /\ i = -1
    /\ train_running_loss = Zero /\ train_acc = Zero
    /\ X_local_minibatch = Null /\ y_local_minibatch = Null
    /\ y_pred = Null /\ loss = Null
    /\ used = <<>>
    /\ values = <<>>
    /\ printed = 0
    /\ line = NoLine
    /\ err = "none"

\* lines 30-42: the gate picks one loader and calls it
Gate ==
    /\ pc = "gate"
    /\ IF AllCached(files)
         THEN /\ line' = Message("Preprocessed files exist, deserializing npy files")
              /\ pc' = "load_deserialize_data"
         ELSE /\ line' = Message("Preprocessing raw audio files")
              /\ pc' = "load_preprocess_data"
    /\ UNCHANGED <<files, genre_features, train_X, train_Y, test_X, test_Y, model,
                   optimizer, num_batches, epoch, i, train_running_loss, train_acc,
                   X_local_minibatch, y_local_minibatch, y_pred, loss, used, values,
                   printed, err>>

\* GenreFeatureData.load_deserialize_data: reads the cached arrays
load_deserialize_data ==
    /\ pc = "load_deserialize_data"
    /\ \E n \in TrainSizes : genre_features' = LoadedArrays(n)
    /\ pc' = "tensors"
    /\ line' = NoLine
    /\ UNCHANGED <<files, train_X, train_Y, test_X, test_Y, model, optimizer,
                   num_batches, epoch, i, train_running_loss, train_acc,
                   X_local_minibatch, y_local_minibatch, y_pred, loss, used, values,
                   printed, err>>

\* GenreFeatureData.load_preprocess_data: regenerates the arrays and writes all
\* six cache files
load_preprocess_data ==
    /\ pc = "load_preprocess_data"
    /\ \E n \in TrainSizes : genre_features' = LoadedArrays(n)
    /\ files' = CacheFiles
    /\ pc' = "tensors"
    /\ line' = NoLine
    /\ UNCHANGED <<train_X, train_Y, test_X, test_Y, model, optimizer,
                   num_batches, epoch, i, train_running_loss, train_acc,
                   X_local_minibatch, y_local_minibatch, y_pred, loss, used, values,
                   printed, err>>

\* lines 44-55: arrays to tensors, shapes printed
Tensors ==
    /\ pc = "tensors"
    /\ train_X' = from_numpy_type(genre_features.train_X, "float32")
    /\ test_X'  = from_numpy_type(genre_features.test_X, "float32")
    /\ train_Y' = from_numpy_type(genre_features.train_Y, "int64")
    /\ test_Y'  = from_numpy_type(genre_features.test_Y, "int64")
    /\ line' = Message("Test Y shape")
    /\ pc' = "build"
    /\ UNCHANGED <<files, genre_features, model, optimizer, num_batches,
                   epoch, i, train_running_loss, train_acc, X_local_minibatch,
                   y_local_minibatch, y_pred, loss, used, values, printed, err>>

\* lines 98-113: model, optimizer, num_batches
Build ==
    /\ pc = "build"
    /\ model' = LSTM(input_dim, hidden_dim, batch_size, output_dim, num_layers)
    /\ optimizer' = Adam(1)
    /\ num_batches' = NumBatches(Shape0(train_X))
    /\ line' = Message("Training ...")
    /\ pc' = "for_epoch"
    /\ UNCHANGED <<files, genre_features, train_X, train_Y, test_X, test_Y,
                   epoch, i, train_running_loss, train_acc, X_local_minibatch,
                   y_local_minibatch, y_pred, loss, used, values, printed, err>>

\* mutant: the range of epochs is one short
HasNextEpochShort(e) == e + 1 < num_epochs - 1

\* range(num_epochs) has a next item after e
HasNextEpoch(e) == e + 1 < num_epochs

\* range(num_batches) has a next item after k
HasNextBatch(k, nb) == k + 1 < nb

\* mutant: the model is built anew at the start of every epoch
EpochStartRebuild ==
    /\ pc = "for_epoch"
    /\ epoch + 1 < num_epochs
    /\ epoch' = epoch + 1
    /\ train_running_loss' = Zero
    /\ train_acc' = Zero
    /\ model' = [LSTM(input_dim, hidden_dim, batch_size, output_dim, num_layers)
                    EXCEPT !.hidden = init_hidden(model), !.grad = model.grad]
    /\ i' = -1
    /\ used' = <<>>
    /\ values' = <<>>
    /\ line' = NoLine
    /\ pc' = "for_i"
    /\ UNCHANGED <<files, genre_features, train_X, train_Y, test_X, test_Y,
                   optimizer, num_batches, X_local_minibatch, y_local_minibatch,
                   y_pred, loss, printed, err>>

\* lines 115-120: the next epoch starts
EpochStart ==
    /\ pc = "for_epoch"
    /\ HasNextEpoch(epoch)
    /\ epoch' = epoch + 1
    /\ train_running_loss' = Zero
    /\ train_acc' = Zero
    /\ model' = [model EXCEPT !.hidden = init_hidden(model)]
    /\ i' = -1
    /\ used' = <<>>
    /\ values' = <<>>
    /\ line' = NoLine
    /\ pc' = "for_i"
    /\ UNCHANGED <<files, genre_features, train_X, train_Y, test_X, test_Y,
                   optimizer, num_batches, X_local_minibatch, y_local_minibatch,
                   y_pred, loss, printed, err>>

\* line 115: range(num_epochs) is exhausted, the script ends
Finish ==
    /\ pc = "for_epoch"
    /\ ~HasNextEpoch(epoch)
    /\ pc' = "done"
    /\ line' = NoLine
    /\ UNCHANGED <<files, genre_features, train_X, train_Y, test_X, test_Y,
                   model, optimizer, num_batches, epoch, i, train_running_loss,
                   train_acc, X_local_minibatch, y_local_minibatch, y_pred, loss,
                   used, values, printed, err>>

\* lines 121-124: the next minibatch starts, gradients cleared
ZeroGrad ==
    /\ pc = "for_i"
    /\ HasNextBatch(i, num_batches)
    /\ i' = i + 1
    /\ model' = zero_grad(model)
    /\ line' = NoLine
    /\ pc' = "slice"
    /\ UNCHANGED <<files, genre_features, train_X, train_Y, test_X, test_Y,
                   optimizer, num_batches, epoch, train_running_loss, train_acc,
                   X_local_minibatch, y_local_minibatch, y_pred, loss, used, values,
                   printed, err>>

\* lines 131-134
Slice ==
    /\ pc = "slice"
    /\ X_local_minibatch' = SliceExamples(train_X, i * batch_size, (i + 1) * batch_size)
    /\ y_local_minibatch' = SliceRows(train_Y, i * batch_size, (i + 1) * batch_size)
    /\ used' = Append(used, [first |-> X_local_minibatch'.first,
                             count |-> X_local_minibatch'.shape[1]])
    /\ pc' = "permute"
    /\ UNCHANGED <<values, files, genre_features, train_X, train_Y, test_X,
                   test_Y,
                   model, optimizer, num_batches, epoch, i, train_running_loss,
                   train_acc, y_pred, loss, printed, line, err>>

\* line 137
Permute ==
    /\ pc = "permute"
    /\ X_local_minibatch' = permute(X_local_minibatch, <<1, 0, 2>>)
    /\ pc' = "labels"
    /\ UNCHANGED <<files, genre_features, train_X, train_Y, test_X, test_Y,
                   model, optimizer, num_batches, epoch, i, train_running_loss,
                   train_acc, y_local_minibatch, y_pred, loss, used, values, printed, line,
                   err>>

\* line 140
Labels ==
    /\ pc = "labels"
    /\ y_local_minibatch' = torch_max_1(y_local_minibatch)[2]
    /\ pc' = "forward"
    /\ UNCHANGED <<files, genre_features, train_X, train_Y, test_X, test_Y,
                   model, optimizer, num_batches, epoch, i, train_running_loss,
                   train_acc, X_local_minibatch, y_pred, loss, used, values, printed, line,
                   err>>

\* line 142
Forward ==
    /\ pc = "forward"
    /\ \E h \in HitCounts(Len(y_local_minibatch.rows)) :
          y_pred' = forward(model, X_local_minibatch,
                            Scores(y_local_minibatch.rows, h))
    /\ pc' = "loss"
    /\ UNCHANGED <<files, genre_features, train_X, train_Y, test_X, test_Y,
                   model, optimizer, num_batches, epoch, i, train_running_loss,
                   train_acc, X_local_minibatch, y_local_minibatch, loss, used, values,
                   printed, line, err>>

\* line 143
Loss ==
    /\ pc = "loss"
    /\ loss' = loss_function(y_pred, y_local_minibatch)
    /\ pc' = "backward"
    /\ UNCHANGED <<files, genre_features, train_X, train_Y, test_X, test_Y,
                   model, optimizer, num_batches, epoch, i, train_running_loss,
                   train_acc, X_local_minibatch, y_local_minibatch, y_pred, used, values,
                   printed, line, err>>

\* line 144
Backward ==
    /\ pc = "backward"
    /\ model' = backward(model, loss)
    /\ pc' = "step"
    /\ UNCHANGED <<files, genre_features, train_X, train_Y, test_X, test_Y,
                   optimizer, num_batches, epoch, i, train_running_loss, train_acc,
                   X_local_minibatch, y_local_minibatch, y_pred, loss, used, values,
                   printed, line, err>>

\* line 145
Step ==
    /\ pc = "step"
    /\ model' = step_params(model)
    /\ optimizer' = step_optimizer(optimizer)
    /\ pc' = "accumulate"
    /\ UNCHANGED <<files, genre_features, train_X, train_Y, test_X, test_Y,
                   num_batches, epoch, i, train_running_loss, train_acc,
                   X_local_minibatch, y_local_minibatch, y_pred, loss, used, values,
                   printed, line, err>>

\* mutant: the mean is kept running, the accumulators hold the last value only
AccumulateLast ==
    /\ pc = "accumulate"
    /\ train_running_loss' = loss.value
    /\ \E acc \in {get_accuracy(model, y_pred, y_local_minibatch)} :
          /\ train_acc' = acc
          /\ values' = Append(values, [loss |-> loss.value, acc |-> acc])
    /\ X_local_minibatch' = Null /\ y_local_minibatch' = Null
    /\ y_pred' = Null /\ loss' = Null
    /\ pc' = "for_i"
    /\ UNCHANGED <<files, genre_features, train_X, train_Y, test_X, test_Y,
                   model, optimizer, num_batches, epoch, i, used, printed, line, err>>

\* lines 147-148
Accumulate ==
    /\ pc = "accumulate"
    /\ train_running_loss' = RatAdd(train_running_loss, loss.value)
    /\ \E acc \in {get_accuracy(model, y_pred, y_local_minibatch)} :
          /\ train_acc' = RatAdd(train_acc, acc)
          /\ values' = Append(values, [loss |-> loss.value, acc |-> acc])
    /\ X_local_minibatch' = Null /\ y_local_minibatch' = Null
    /\ y_pred' = Null /\ loss' = Null
    /\ pc' = "for_i"
    /\ UNCHANGED <<files, genre_features, train_X, train_Y, test_X, test_Y,
                   model, optimizer, num_batches, epoch, i, used, printed, line, err>>

\* lines 150-153: the epoch's report line
Report ==
    /\ pc = "for_i"
    /\ ~HasNextBatch(i, num_batches)
    /\ num_batches # 0
    /\ line' = EpochLine(epoch, RatDiv(train_running_loss, num_batches),
                         RatDiv(train_acc, num_batches))
    /\ printed' = printed + 1
    /\ pc' = "for_epoch"
    /\ UNCHANGED <<files, genre_features, train_X, train_Y, test_X, test_Y,
                   model, optimizer, num_batches, epoch, i, train_running_loss,
                   train_acc, X_local_minibatch, y_local_minibatch, y_pred, loss,
                   used, values, err>>

\* mutant: an epoch without minibatches reports zero means
ReportGuarded ==
    /\ pc = "for_i"
    /\ ~HasNextBatch(i, num_batches)
    /\ num_batches = 0
    /\ line' = EpochLine(epoch, Zero, Zero)
    /\ printed' = printed + 1
    /\ pc' = "for_epoch"
    /\ UNCHANGED <<files, genre_features, train_X, train_Y, test_X, test_Y,
                   model, optimizer, num_batches, epoch, i, train_running_loss,
                   train_acc, X_local_minibatch, y_local_minibatch, y_pred, loss,
                   used, values, err>>

\* line 152 with num_batches = 0: float division by zero, uncaught
ReportDivZero ==
    /\ pc = "for_i"
    /\ ~HasNextBatch(i, num_batches)
    /\ num_batches = 0
    /\ err' = "ZeroDivisionError"
    /\ pc' = "error"
    /\ UNCHANGED <<files, genre_features, train_X, train_Y, test_X, test_Y,
                   model, optimizer, num_batches, epoch, i, train_running_loss,
                   train_acc, X_local_minibatch, y_local_minibatch, y_pred, loss,
                   used, values, printed, line>>

Next ==
    \/ Gate
    \/ load_deserialize_data
    \/ load_preprocess_data
    \/ Tensors
    \/ Build
    \/ EpochStart
    \/ Finish
    \/ ZeroGrad
    \/ Slice
    \/ Permute
    \/ Labels
    \/ Forward
    \/ Loss
    \/ Backward
    \/ Step
    \/ Accumulate
    \/ Report
    \/ ReportDivZero

Spec == Init /\ [][Next]_vars

\* positions of the script
Pcs == {"gate", "load_deserialize_data", "load_preprocess_data", "tensors",
        "build", "for_epoch", "for_i", "slice", "permute", "labels", "forward", "loss", "backward", "step", "accumulate",
        "done", "error"}

\* the script has neither ended nor failed, and its position moves
Running ==
    /\ pc \notin {"done", "error"}
    /\ pc' \in Pcs
    /\ pc' # pc

\* the interpreter runs the script on: while it has not ended or failed, its
\* position eventually moves (every step of Next moves it)
FairSpec == Spec /\ WF_pc(Running)

(***************************************************************************)
(* LSTM.init_hidden on its own: a model object of any small configuration, *)
(* or of the script's, on which init_hidden is called between parameter    *)
(* updates.                                                                *)
(***************************************************************************)
Configurations ==
    {LSTM(input_dim, h, b, output_dim, l) :
        h \in 1..MaxDim, b \in 1..MaxDim, l \in 1..MaxDim}
    \cup {LSTM(input_dim, hidden_dim, batch_size, output_dim, num_layers)}

InitHidden ==
    /\ pc = "object"
    /\ model \in Configurations
    /\ optimizer = Adam(1)
    /\ files = CacheFiles
    /\ genre_features = Null
    /\ train_X = Null /\ train_Y = Null /\ test_X = Null /\ test_Y = Null
    /\ num_batches = -1
    /\ epoch = -1 /\ i = -1
    /\ train_running_loss = Zero /\ train_acc = Zero
    /\ X_local_minibatch = Null /\ y_local_minibatch = Null
    /\ y_pred = Null /\ loss = Null
    /\ used = <<>>
    /\ values = <<>>
    /\ printed = 0
    /\ line = NoLine
    /\ err = "none"

\* line 120: model.hidden = model.init_hidden()
CallInitHidden ==
    /\ pc = "object"
    /\ model' = [model EXCEPT !.hidden = init_hidden(model)]
    /\ UNCHANGED <<pc, files, genre_features, train_X, train_Y, test_X,
                   test_Y, optimizer, num_batches, epoch, i, train_running_loss,
                   train_acc, X_local_minibatch, y_local_minibatch, y_pred, loss,
                   used, values, printed, line, err>>

\* lines 144-145 on the object: a backward pass and a parameter update
UpdateParams ==
    /\ pc = "object"
    /\ optimizer.steps < MaxUpdates
    /\ model' = step_params(backward(zero_grad(model),
                                     [from_params |-> model.params, first |-> 0]))
    /\ optimizer' = step_optimizer(optimizer)
    /\ UNCHANGED <<pc, files, genre_features, train_X, train_Y, test_X,
                   test_Y, num_batches, epoch, i, train_running_loss, train_acc,
                   X_local_minibatch, y_local_minibatch, y_pred, loss, used,
                   values, printed, line, err>>

NextHidden ==
    \/ CallInitHidden
    \/ UpdateParams

SpecHidden == InitHidden /\ [][NextHidden]_vars

(***************************************************************************)
(* Properties.                                                             *)
(***************************************************************************)
\* positions inside one minibatch iteration
BodyPcs == {"slice", "permute", "labels", "forward", "loss", "backward", "step",
            "accumulate"}

\* positions from the first epoch on
LoopPcs == BodyPcs \cup {"for_epoch", "for_i", "done", "error"}

\* example j lies in a sliced range
InRange(j, u) == u.first <= j /\ j < u.first + u.count

\* C1: num_batches is floor(N / batch_size); iteration k of every epoch slices
\* exactly the batch_size examples [k*batch_size, (k+1)*batch_size); when the
\* minibatch loop of an epoch is over, it has run num_batches iterations, every
\* example below batch_size*num_batches was sliced once, every example from
\* there on never, and a remainder raises no error.
C1_Batches ==
    pc \in LoopPcs =>
        LET N == Shape0(train_X) IN
        /\ num_batches >= 0
        /\ num_batches * batch_size <= N
        /\ N < (num_batches + 1) * batch_size
        /\ Len(used) = IF pc = "slice" THEN i ELSE i + 1
        /\ Len(used) <= num_batches
        /\ \A k \in 1..Len(used) :
              used[k] = [first |-> (k - 1) * batch_size, count |-> batch_size]
        /\ (pc \in {"for_epoch", "done", "error"} /\ epoch >= 0) =>
              /\ Len(used) = num_batches
              /\ \A j \in 0..(N - 1) :
                    Cardinality({k \in 1..Len(used) : InRange(j, used[k])})
                        = IF j < batch_size * num_batches THEN 1 ELSE 0
        /\ N >= batch_size => err = "none"

\* C1 witness: an epoch over 2 full batches and a remainder of 34 is finished
C1_Witness ==
    /\ pc = "for_epoch"
    /\ epoch = 1
    /\ Shape0(train_X) = 2 * batch_size + 34
    /\ Len(used) = 2
    /\ err = "none"

\* C2: the gate calls load_deserialize_data only when all six cache files
\* exist and load_preprocess_data only when one is missing; the arrays are
\* loaded by that one call, and after it (load_preprocess_data rewrites all
\* six) every cache file exists.
C2_Gate ==
    /\ pc = "load_deserialize_data" =>
          /\ files = CacheFiles
          /\ line = Message("Preprocessed files exist, deserializing npy files")
    /\ pc = "load_preprocess_data" =>
          /\ files # CacheFiles
          /\ line = Message("Preprocessing raw audio files")
    /\ pc \in {"gate", "load_deserialize_data", "load_preprocess_data"} =>
          genre_features = Null
    /\ pc \in Pcs \ {"gate", "load_deserialize_data", "load_preprocess_data"} =>
          /\ files = CacheFiles
          /\ genre_features # Null

\* C2 witness: one cache file is missing and load_preprocess_data was called
C2_Witness ==
    /\ pc = "load_preprocess_data"
    /\ Cardinality(files) = 5

\* C3: the run ends, and when no step failed it ends after exactly num_epochs
\* epochs: the epoch index only ever moves to its successor, the run is done
\* only past epoch num_epochs - 1 with num_epochs report lines written, and
\* the optimizer has then made num_epochs * num_batches steps.
C3_Terminates ==
    /\ <>(pc \in {"done", "error"})
    /\ [][epoch' = epoch \/ (epoch' = epoch + 1 /\ pc = "for_epoch")]_vars
    /\ [](pc \in LoopPcs \ {"done", "error"} => epoch < num_epochs)
    /\ [](pc = "done" =>
            /\ epoch = num_epochs - 1
            /\ printed = num_epochs
            /\ err = "none"
            /\ optimizer.steps = num_epochs * num_batches)

\* C3 witness: a run over two batches per epoch is done
C3_Witness ==
    /\ pc = "done"
    /\ num_batches = 2
    /\ optimizer.steps = 2 * num_epochs

\* C4: get_accuracy returns 100 * c / batch_size for a count c of correct rows
\* between 0 and batch_size, hence a value in [0, 100], at every call of the
\* loop (whose minibatch has batch_size rows); the epoch's mean is in [0, 100].
C4_Accuracy ==
    /\ pc = "accumulate" =>
          LET a == get_accuracy(model, y_pred, y_local_minibatch) IN
          /\ Len(y_pred.rows) = batch_size
          /\ Len(y_local_minibatch.rows) = batch_size
          /\ \E c \in {Cardinality({r \in 1..batch_size :
                          y_pred.rows[r][y_local_minibatch.rows[r] + 1] = 0})} :
                /\ c \in 0..batch_size
                /\ a = Rat(100 * c, batch_size)
          /\ RatLeq(Zero, a) /\ RatLeq(a, Hundred)
    /\ \A k \in 1..Len(values) :
          RatLeq(Zero, values[k].acc) /\ RatLeq(values[k].acc, Hundred)
    /\ line.kind = "epoch" => RatLeq(Zero, line.acc) /\ RatLeq(line.acc, Hundred)

\* C4 witness: an epoch of two minibatches, all rows right, reports 100
C4_Witness ==
    /\ line.kind = "epoch"
    /\ Len(values) = 2
    /\ line.acc = Hundred

\* C5: the label conversion maps the one-hot row of genre k to k, for every
\* k in 0..7; right after line 140 the converted minibatch holds batch_size
\* class indices in 0..7, the r-th being the position of the 1 in the r-th
\* example of the slice.
C5_Labels ==
    pc = "forward" =>
          /\ torch_max_1([dtype |-> "int64",
                rows |-> << <<0, 0, 1, 0, 0, 0, 0, 0>> >>])[2].rows = <<2>>
          /\ \A k \in 0..7 :
                torch_max_1([dtype |-> "int64",
                             rows |-> <<OneHot(k)>>])[2].rows = <<k>>
          /\ Len(y_local_minibatch.rows) = batch_size
          /\ \A r \in 1..Len(y_local_minibatch.rows) :
                LET y   == y_local_minibatch.rows[r]
                    row == train_Y.rows[i * batch_size + r]
                IN  /\ y \in 0..7
                    /\ \A c \in 0..7 : row[c + 1] = IF c = y THEN 1 ELSE 0

\* C5 witness: the second minibatch is converted; its first example, number
\* 35 of the training set, has genre 3
C5_Witness ==
    /\ pc = "forward"
    /\ i = 1
    /\ train_Y.rows[batch_size + 1] = <<0, 0, 0, 1, 0, 0, 0, 0>>
    /\ y_local_minibatch.rows[1] = 3

\* C6: init_hidden returns a pair of tensors of shape [num_layers, batch_size,
\* hidden_dim], all zero, whatever the configuration and whatever happened to
\* the model before; the call leaves the rest of the model as it was.
C6_InitHidden ==
    [][/\ model'.hidden # <<>> =>
            /\ Len(model'.hidden) = 2
            /\ \A t \in 1..2 :
                  /\ model'.hidden[t].shape
                        = <<model'.num_layers, model'.batch_size, model'.hidden_dim>>
                  /\ \A idx \in Indices(model'.hidden[t].shape) :
                        At(model'.hidden[t], idx) = 0
       /\ model'.hidden # model.hidden =>
            [model' EXCEPT !.hidden = model.hidden] = model
       /\ model'.params # model.params => model'.hidden = model.hidden
      ]_vars

\* C6 witness: init_hidden was called on a model of 1 layer, batch size 2 and
\* hidden width 3 whose parameters had been updated twice
C6_Witness ==
    /\ pc = "object"
    /\ model.num_layers = 1 /\ model.batch_size = 2 /\ model.hidden_dim = 3
    /\ model.params = 2
    /\ model.hidden = << [shape |-> <<1, 2, 3>>, fill |-> 0],
                         [shape |-> <<1, 2, 3>>, fill |-> 0] >>

\* minibatches finished since training began
Finished ==
    epoch * num_batches + i + (IF pc \in BodyPcs \ {"accumulate"} THEN 0 ELSE 1)

\* C7: inside an iteration the gradients are clear from the slice up to the
\* backward pass; the forward pass gets the permuted slice and class indices;
\* the optimizer steps on the gradients of this minibatch alone, taken at the
\* parameters the predictions were made with; one step is made per backward
\* pass; the accuracy accumulated comes from predictions made before the step.
C7_Order ==
    /\ pc \in {"slice", "permute", "labels", "forward", "loss", "backward"} =>
          model.grad = <<>>
    /\ pc \in {"labels", "forward", "loss", "backward", "step", "accumulate"} =>
          /\ X_local_minibatch.axes = <<"time", "example", "feature">>
          /\ X_local_minibatch.shape = <<SeqLen, batch_size, input_dim>>
          /\ X_local_minibatch.first = i * batch_size
    /\ pc = "labels" => \A r \in 1..Len(y_local_minibatch.rows) :
                            Len(y_local_minibatch.rows[r]) = output_dim
    /\ pc \in {"forward", "loss", "backward", "step", "accumulate"} =>
          \A r \in 1..Len(y_local_minibatch.rows) :
              y_local_minibatch.rows[r] \in 0..(output_dim - 1)
    /\ pc \in {"forward", "slice", "permute", "labels"} => y_pred = Null /\ loss = Null
    /\ pc \in {"loss", "backward", "step"} =>
          /\ y_pred.from_params = model.params
          /\ y_pred.first = i * batch_size
    /\ pc = "loss" => loss = Null
    /\ pc \in {"backward", "step"} =>
          /\ loss.from_params = model.params
          /\ loss.first = i * batch_size
    /\ pc = "step" =>
          model.grad = <<[from_params |-> model.params, first |-> i * batch_size]>>
    /\ pc = "accumulate" =>
          /\ y_pred.from_params = model.params - 1
          /\ model.grad = <<[from_params |-> model.params - 1,
                             first |-> i * batch_size]>>
    /\ pc \in BodyPcs \cup {"for_i"} =>
          /\ optimizer.steps = Finished
          /\ model.params = Finished
          /\ Len(values) = i + (IF pc = "for_i" THEN 1 ELSE 0)

\* C7 witness: the second minibatch of the second epoch has made its step and
\* is about to accumulate the accuracy of predictions made at parameters 3
C7_Witness ==
    /\ pc = "accumulate"
    /\ epoch = 1 /\ i = 1
    /\ num_batches = 2
    /\ y_pred.from_params = 3
    /\ model.params = 4

\* C8: the parameters change at the optimizer step only, by one update; the
\* optimizer state changes there only; the start of an epoch clears the two
\* accumulators and zeroes the hidden state and leaves the parameters and the
\* optimizer alone, so the first minibatch of an epoch starts from the
\* parameters of the last step of the epoch before; the loop never changes
\* the four data tensors.
C8_Frame ==
    [][/\ pc \in LoopPcs =>
            /\ train_X' = train_X /\ train_Y' = train_Y
            /\ test_X' = test_X /\ test_Y' = test_Y
       /\ (pc \in LoopPcs /\ pc # "step") =>
            /\ model'.params = model.params
            /\ optimizer' = optimizer
       /\ pc = "step" =>
            /\ model'.params = model.params + 1
            /\ optimizer'.steps = optimizer.steps + 1
       /\ (pc = "for_epoch" /\ pc' = "for_i") =>
            /\ train_running_loss' = Zero
            /\ train_acc' = Zero
            /\ model'.hidden = init_hidden(model)
            /\ model'.params = epoch' * num_batches
            /\ model'.grad = model.grad
       /\ (pc' = "slice" /\ i' = 0) => model'.params = epoch' * num_batches
      ]_vars

\* C8 witness: the first minibatch of the second epoch starts at the
\* parameters left by the two steps of the first
C8_Witness ==
    /\ pc = "slice"
    /\ i = 0
    /\ epoch = 1
    /\ num_batches = 2
    /\ model.params = 2
    /\ train_running_loss = Zero

RECURSIVE SumRat(_, _)
SumRat(seq, field) ==
    IF seq = <<>> THEN Zero
    ELSE RatAdd(SumRat(SubSeq(seq, 1, Len(seq) - 1), field), seq[Len(seq)][field])

\* C9: the accumulators hold the sum of the losses and of the accuracies of
\* the minibatches finished in the current epoch and nothing else; a report
\* line is written once per epoch, after its num_batches minibatches, with the
\* epoch index and the two sums divided by num_batches; no minibatch of the
\* next epoch starts before it.
C9_Report ==
    /\ pc \in LoopPcs /\ epoch >= 0 =>
          /\ train_running_loss = SumRat(values, "loss")
          /\ train_acc = SumRat(values, "acc")
    /\ pc \in BodyPcs \cup {"for_i"} =>
          /\ printed = epoch
          /\ line.kind # "epoch"
    /\ (pc = "for_epoch" /\ epoch >= 0) =>
          /\ printed = epoch + 1
          /\ Len(values) = num_batches
          /\ line = [kind  |-> "epoch",
                     epoch |-> epoch,
                     loss  |-> Rat(SumRat(values, "loss").num,
                                   SumRat(values, "loss").den * num_batches),
                     acc   |-> Rat(SumRat(values, "acc").num,
                                   SumRat(values, "acc").den * num_batches)]
    /\ pc = "done" => printed = num_epochs

\* C9 witness: the second epoch reports the means of its two minibatches, one
\* with no row right and one with 34 of 35
C9_Witness ==
    /\ line.kind = "epoch"
    /\ line.epoch = 1
    /\ values = << [loss |-> Rat(1, 1), acc |-> Zero],
                   [loss |-> Rat(1, 35), acc |-> Rat(3400, 35)] >>
    /\ line.loss = Rat(18, 35)
    /\ line.acc = Rat(340, 7)

\* C10: with fewer than batch_size training examples num_batches is 0, no
\* minibatch ever runs, and the run stops in epoch 0 on the division by zero
\* of the report, before any line is written; with batch_size examples or
\* more num_batches is at least 1 and no division by zero occurs.
C10_DivZero ==
    pc \in LoopPcs =>
        /\ Shape0(train_X) < batch_size =>
              /\ num_batches = 0
              /\ pc \in {"for_epoch", "for_i", "error"}
              /\ pc = "for_epoch" => epoch = -1
              /\ pc = "for_i" => epoch = 0
              /\ pc = "error" => epoch = 0 /\ err = "ZeroDivisionError"
              /\ used = <<>> /\ values = <<>>
              /\ y_pred = Null
              /\ optimizer.steps = 0 /\ model.params = 0
              /\ printed = 0 /\ line.kind # "epoch"
        /\ Shape0(train_X) >= batch_size =>
              /\ num_batches >= 1
              /\ pc # "error"
              /\ err = "none"

\* C10 witness: a training set of 34 examples stopped the run in epoch 0
C10_Witness ==
    /\ pc = "error"
    /\ Shape0(train_X) = batch_size - 1
    /\ err = "ZeroDivisionError"
    /\ epoch = 0

====
